---- MODULE Spec2Model ----
(***************************************************************************)
(* Multisig wallet: the record store (tables wallets, wallet_keys,         *)
(* transactions), the service calls of walletService, the pure functions   *)
(* of bitcoinService and the handlers of the MultisigWallet component.     *)
(* Every browser session (client) keeps its own React state and shares the *)
(* record store with the others; every await of a handler is one step.     *)
(***************************************************************************)
EXTENDS Integers, Sequences, FiniteSets, TLC

\* ------------------------------------------------------------------ bounds
\* largest m and n a user types into the configuration form
MaxN == 2
\* largest number of rows of the transactions table
MaxTx == 1

\* ------------------------------------------------------- program constants
\* CHECK (m > 0 AND m <= 15), CHECK (n > 0 AND n <= 15 AND n >= m)
MaxSigners == 15
\* byte length of a compressed / an uncompressed public key
CompressedLen == 33
UncompressedLen == 65

\* ------------------------------------------------------------------- sets
\* browser sessions of the wallet's owner
Clients == {"c1", "c2"}
\* texts typed into the public key field (hex)
PubKeyInputs == {"02aa", "02AA", "03bb", "04cc", "02ff"}
\* `sig_${Math.random()...}`: the token a session generates; the tokens of
\* two sessions differ
mockSignature(c) == "sig_" \o c
\* amounts typed into the amount field, in half satoshis
\* (amountBtc = h / 200000000)
AmountInputs == {-2, 0, 1, 2}

\* SQL NULL of a TEXT column
Null == <<>>
\* React state `selectedWallet` before a wallet is selected (null)
NoWallet == [id |-> 0, m |-> 0, n |-> 0, address |-> Null,
             script_hex |-> Null, is_complete |-> FALSE]

\* ---------------------------------------------------------------- helpers
IsPrefix(s, t) == Len(s) <= Len(t) /\ SubSeq(t, 1, Len(s)) = s

RECURSIVE SelectRows(_, _)
\* rows of a table kept in created_at order whose wallet_id is w, in that order
SelectRows(tbl, w) ==
  IF tbl = <<>> THEN <<>>
  ELSE IF Head(tbl).wallet_id = w
       THEN <<Head(tbl)>> \o SelectRows(Tail(tbl), w)
       ELSE SelectRows(Tail(tbl), w)

RECURSIVE Reverse(_)
Reverse(s) == IF s = <<>> THEN <<>> ELSE Reverse(Tail(s)) \o <<Head(s)>>

\* ------------------------------------------------------------ bitcoinService
\* Buffer.from(hex, 'hex'): the decoded bytes, as <<length, content>>;
\* hex digits decode the same in upper and lower case
HexDecode(hex) ==
  CASE hex = "02aa" -> <<CompressedLen, "aa">>
    [] hex = "02AA" -> <<CompressedLen, "aa">>
    [] hex = "03bb" -> <<CompressedLen, "bb">>
    [] hex = "04cc" -> <<UncompressedLen - 1, "cc">>
    [] hex = "02ff" -> <<CompressedLen, "ff">>
    [] OTHER -> <<0, "">>

\* ecc.isPoint(buffer)
isPoint(buf) ==
  /\ buf[1] \in {CompressedLen, UncompressedLen}
  /\ buf[2] \in {"aa", "bb"}

\* validatePublicKey without the ecc.isPoint test
validatePublicKeyLengthOnly(pubkeyHex) ==
  LET pubkeyBuffer == HexDecode(pubkeyHex) IN
  IF pubkeyBuffer[1] # CompressedLen /\ pubkeyBuffer[1] # UncompressedLen
  THEN [hex |-> pubkeyHex, compressed |-> FALSE, valid |-> FALSE]
  ELSE [hex |-> pubkeyHex,
        compressed |-> (pubkeyBuffer[1] = CompressedLen),
        valid |-> TRUE]

validatePublicKey(pubkeyHex) ==
  LET pubkeyBuffer == HexDecode(pubkeyHex) IN
  IF pubkeyBuffer[1] # CompressedLen /\ pubkeyBuffer[1] # UncompressedLen
  THEN [hex |-> pubkeyHex, compressed |-> FALSE, valid |-> FALSE]
  ELSE [hex |-> pubkeyHex,
        compressed |-> (pubkeyBuffer[1] = CompressedLen),
        valid |-> isPoint(pubkeyBuffer)]

\* createMultisigAddress without the ecc.isPoint test of the keys
createMultisigAddressUnchecked(m, publicKeys) ==
  LET pubkeyBuffers == [i \in 1..Len(publicKeys) |-> HexDecode(publicKeys[i])] IN
  IF m < 1 \/ m > Len(publicKeys)
  THEN [ok |-> FALSE, address |-> Null, scriptHex |-> Null,
        console |-> <<"TypeError">>]
  ELSE [ok |-> TRUE,
        address |-> <<"p2sh", m, pubkeyBuffers>>,
        scriptHex |-> <<"p2ms", m, pubkeyBuffers>>,
        console |-> Null]

\* the return value null is modelled as [ok |-> FALSE]; console is the
\* error the catch block gives to console.error before it returns null
createMultisigAddress(m, publicKeys) ==
  LET pubkeyBuffers == [i \in 1..Len(publicKeys) |-> HexDecode(publicKeys[i])]
      invalid == {i \in 1..Len(publicKeys) : ~isPoint(pubkeyBuffers[i])} IN
  IF invalid # {}
  THEN [ok |-> FALSE, address |-> Null, scriptHex |-> Null,
        console |-> <<"Invalid public key",
                      publicKeys[CHOOSE i \in invalid : \A k \in invalid : i <= k]>>]
  ELSE IF m < 1 \/ m > Len(publicKeys)
  THEN [ok |-> FALSE, address |-> Null, scriptHex |-> Null,
        console |-> <<"TypeError">>]
  ELSE [ok |-> TRUE,
        address |-> <<"p2sh", m, pubkeyBuffers>>,
        scriptHex |-> <<"p2ms", m, pubkeyBuffers>>,
        console |-> Null]

\* Math.round(parseFloat(btc) * 100000000), the input given in half satoshis
btcToSatoshis(h) == (h + 1) \div 2

estimateFee(inputCount, outputCount) ==
  (inputCount * 148 + outputCount * 34 + 10) * 10

\* -------------------------------------------------------------- cryptoService
\* the error decrypt throws ('Failed to decrypt: Invalid password or
\* corrupted data'); a returned string s is [ok |-> TRUE, text |-> s]
DecryptError == [ok |-> FALSE, text |-> ""]
\* what the bytes that AES-CBC yields under another key or iv, cut by the
\* Pkcs7 unpadding (which removes as many bytes as the last byte says and
\* checks nothing), can be: not UTF-8 (toString throws 'Malformed UTF-8
\* data'), no bytes at all, or the bytes of a short text
WrongKeyBytes == {[utf8 |-> FALSE, text |-> ""],
                  [utf8 |-> TRUE, text |-> ""],
                  [utf8 |-> TRUE, text |-> "\\x03"]}

\* CryptoJS.PBKDF2(password, salt, {keySize: 256/32, iterations: 100000})
deriveKey(password, salt) == <<"pbkdf2", password, salt>>

\* CryptoJS.AES.encrypt(data, key, {iv, CBC, Pkcs7}).toString(): the
\* ciphertext is determined by data, key and iv
AESEncrypt(data, key, iv) == [data |-> data, key |-> key, iv |-> iv]

\* CryptoJS.AES.decrypt(encryptedData, key, {iv, CBC, Pkcs7}): the bytes of
\* the data under the key and iv it was encrypted with, other bytes otherwise
AESDecrypt(encryptedData, key, iv, garbled) ==
  IF key = encryptedData.key /\ iv = encryptedData.iv
  THEN [utf8 |-> TRUE, text |-> encryptedData.data]
  ELSE garbled

\* encrypt, with the salt and iv that WordArray.random produced
encrypt(data, password, salt, iv) ==
  [encryptedData |-> AESEncrypt(data, deriveKey(password, salt), iv),
   salt |-> salt, iv |-> iv]

\* decrypt that derives the key from the password alone
decryptUnsalted(encryptedData, password, salt, iv, garbled) ==
  LET key == deriveKey(password, "")
      decrypted == AESDecrypt(encryptedData, key, iv, garbled) IN
  IF ~decrypted.utf8 \/ decrypted.text = ""
  THEN DecryptError
  ELSE [ok |-> TRUE, text |-> decrypted.text]

\* decrypt; garbled stands for the bytes AES yields when key or iv are not
\* the ones the data was encrypted under
decrypt(encryptedData, password, salt, iv, garbled) ==
  LET key == deriveKey(password, salt)
      decrypted == AESDecrypt(encryptedData, key, iv, garbled) IN
  IF ~decrypted.utf8 \/ decrypted.text = ""
  THEN DecryptError
  ELSE [ok |-> TRUE, text |-> decrypted.text]

\* ------------------------------------------------------------------ state
VARIABLES
  wallets,            \* table wallets, in created_at order
  wallet_keys,        \* table wallet_keys, a set of rows
  transactions,       \* table transactions, in created_at order
  selectedWallet,     \* per client: React state selectedWallet (a row snapshot)
  walletKeys,         \* per client: React state walletKeys
  txList,             \* per client: React state transactions
  pc,                 \* per client: the await its running handler is at
  pending,            \* per client: the locals of its running handler
  toast,              \* per client: title and description of the last toast
  mountLoad,          \* per client: the loadWallets of the mount effect is in flight
  keyLoads,           \* per client: wallet ids of loadWalletKeys calls of the
                      \* selectedWallet effect that are in flight
  txLoads,            \* per client: wallet ids of loadTransactions calls of the
                      \* selectedWallet effect that are in flight
  addressWrites,      \* per wallet id: number of updateWallet calls that
                      \* wrote address/script_hex (saturates at 2)
  key_backups,        \* table key_backups, in created_at order
  keyBackup,          \* per client: React state keyBackup of PrivateKeyBackup
  decryptedKeys,      \* per client: React state decryptedKeys, a set of
                      \* <<key id, secret>>
  decryptPassword,    \* per client: React state decryptPassword
  backupLoads,        \* per client: wallet ids of loadKeyBackup calls of the
                      \* selectedWallet effect that are in flight
  encInput,           \* cryptoService: the data and password given to encrypt
  encResult,          \* cryptoService: the EncryptionResult encrypt returned
  decResult,          \* cryptoService: the password given to decrypt and
                      \* what decrypt returned or threw
  buildInput,         \* bitcoinService: the m and publicKeys given to
                      \* createMultisigAddress
  buildResult         \* bitcoinService: what createMultisigAddress returned
                      \* and what it wrote to the console

vars == <<wallets, wallet_keys, transactions, selectedWallet, walletKeys,
          txList, pc, pending, toast, mountLoad, keyLoads, txLoads,
          addressWrites, key_backups, keyBackup, decryptedKeys,
          decryptPassword, backupLoads, encInput, encResult, decResult,
          buildInput, buildResult>>

storeVars == <<wallets, wallet_keys, transactions, addressWrites>>
walletSide == <<wallets, wallet_keys, selectedWallet, walletKeys, mountLoad,
                keyLoads, addressWrites>>

backupSide == <<key_backups, keyBackup, decryptedKeys, decryptPassword>>
callSide == <<encInput, encResult, decResult, buildInput, buildResult>>

NoPending == [op |-> "none"]
\* React state `loading`: set at the start of a handler, cleared in finally
loading(c) == pc[c] # "idle"

\* ------------------------------------------------------------ walletService
\* getWalletTransactions: rows of the wallet, newest first
getWalletTransactions(walletId) == Reverse(SelectRows(transactions, walletId))

\* table transactions without its CHECK (amount_satoshis > 0)
TransactionInsertUnchecked(row) == TRUE

\* CHECK (amount_satoshis > 0) of table transactions
TransactionInsertOk(row) == row.amount_satoshis > 0

\* SignedRow with the threshold compared strictly
SignedRowStrict(read, signature) ==
  LET newSignatures == Append(read.signatures, signature) IN
  [signatures |-> newSignatures,
   is_complete |-> (Len(newSignatures) > read.required_signatures)]

\* the row addTransactionSignature writes back, from the row it read
SignedRow(read, signature) ==
  LET newSignatures == Append(read.signatures, signature) IN
  [signatures |-> newSignatures,
   is_complete |-> (Len(newSignatures) >= read.required_signatures)]

\* ------------------------------------------------- handlers: transactions
\* a wallet is selected, with or without address
WalletSelected(wallet) == wallet.id # 0

\* the test createTransaction starts with (the form is rendered on the same
\* condition): a wallet is selected and has its address
WalletAvailable(wallet) == wallet.id # 0 /\ wallet.address # Null

\* NewTransaction with the wallet's n taken as the requirement
NewTransactionOfN(wallet, h) ==
  [wallet_id |-> wallet.id,
   amount_satoshis |-> btcToSatoshis(h),
   fee_satoshis |-> estimateFee(1, 2),
   required_signatures |-> wallet.n,
   signatures |-> <<>>,
   is_complete |-> FALSE,
   is_broadcast |-> FALSE]

\* the row createTransaction hands to walletService.createTransaction
NewTransaction(wallet, h) ==
  [wallet_id |-> wallet.id,
   amount_satoshis |-> btcToSatoshis(h),
   fee_satoshis |-> estimateFee(1, 2),
   required_signatures |-> wallet.m,
   signatures |-> <<>>,
   is_complete |-> FALSE,
   is_broadcast |-> FALSE]

\* createTransaction up to its first await
CreateTransactionStart(c, h) ==
  /\ pc[c] = "idle"
  /\ WalletAvailable(selectedWallet[c])
  /\ Len(transactions) + Cardinality({d \in Clients : pc[d] = "ct_insert"}) < MaxTx
  /\ pc' = [pc EXCEPT ![c] = "ct_insert"]
  /\ pending' = [pending EXCEPT ![c] =
       [op |-> "createTransaction",
        row |-> NewTransaction(selectedWallet[c], h)]]
  /\ UNCHANGED <<walletSide, transactions, txList, txLoads, toast>>
  /\ UNCHANGED <<backupSide, backupLoads, callSide>>

\* walletService.createTransaction: the insert
CreateTransactionInsert(c) ==
  /\ pc[c] = "ct_insert"
  /\ IF TransactionInsertOk(pending[c].row)
     THEN /\ transactions' = Append(transactions,
               [id |-> Len(transactions) + 1] @@ pending[c].row)
          /\ pc' = [pc EXCEPT ![c] = "ct_reload"]
          /\ UNCHANGED <<pending, toast>>
     ELSE /\ toast' = [toast EXCEPT ![c] = <<"Error", "Failed to create transaction">>]
          /\ pc' = [pc EXCEPT ![c] = "idle"]
          /\ pending' = [pending EXCEPT ![c] = NoPending]
          /\ UNCHANGED transactions
  /\ UNCHANGED <<walletSide, txList, txLoads>>
  /\ UNCHANGED <<backupSide, backupLoads, callSide>>

\* loadTransactions(selectedWallet.id) at the end of createTransaction
CreateTransactionReload(c) ==
  /\ pc[c] = "ct_reload"
  /\ txList' = [txList EXCEPT ![c] = getWalletTransactions(pending[c].row.wallet_id)]
  /\ toast' = [toast EXCEPT ![c] = <<"Transaction Created", "Transaction ready for signatures">>]
  /\ pc' = [pc EXCEPT ![c] = "idle"]
  /\ pending' = [pending EXCEPT ![c] = NoPending]
  /\ UNCHANGED <<walletSide, transactions, txLoads>>
  /\ UNCHANGED <<backupSide, backupLoads, callSide>>

\* loadTransactions(walletId) of the selectedWallet effect resolves
LoadTransactionsEffect(c, walletId) ==
  /\ walletId \in txLoads[c]
  /\ txLoads' = [txLoads EXCEPT ![c] = @ \ {walletId}]
  /\ txList' = [txList EXCEPT ![c] = getWalletTransactions(walletId)]
  /\ UNCHANGED <<walletSide, transactions, pc, pending, toast>>
  /\ UNCHANGED <<backupSide, backupLoads, callSide>>

\* signTransaction up to the first await of addTransactionSignature; the
\* button is rendered for the rows of txList that are not complete
SignTransactionStart(c, i) ==
  /\ pc[c] = "idle"
  /\ selectedWallet[c].address # Null
  /\ i \in 1..Len(txList[c])
  /\ ~txList[c][i].is_complete
  /\ pc' = [pc EXCEPT ![c] = "st_select"]
  /\ pending' = [pending EXCEPT ![c] =
       [op |-> "signTransaction", transactionId |-> txList[c][i].id,
        signature |-> mockSignature(c)]]
  /\ UNCHANGED <<walletSide, transactions, txList, txLoads, toast>>
  /\ UNCHANGED <<backupSide, backupLoads, callSide>>

\* addTransactionSignature: select signatures, required_signatures
AddTransactionSignatureSelect(c) ==
  /\ pc[c] = "st_select"
  /\ LET transaction == transactions[pending[c].transactionId] IN
     pending' = [pending EXCEPT ![c] =
       [op |-> "signTransaction", transactionId |-> pending[c].transactionId,
        signature |-> pending[c].signature,
        read |-> [signatures |-> transaction.signatures,
                  required_signatures |-> transaction.required_signatures]]]
  /\ pc' = [pc EXCEPT ![c] = "st_update"]
  /\ UNCHANGED <<walletSide, transactions, txList, txLoads, toast>>
  /\ UNCHANGED <<backupSide, backupLoads, callSide>>

\* addTransactionSignature: update signatures, is_complete
AddTransactionSignatureUpdate(c) ==
  /\ pc[c] = "st_update"
  /\ LET id == pending[c].transactionId
         new == SignedRow(pending[c].read, pending[c].signature) IN
     transactions' = [transactions EXCEPT
                        ![id].signatures = new.signatures,
                        ![id].is_complete = new.is_complete]
  /\ pc' = [pc EXCEPT ![c] = "st_reload"]
  /\ UNCHANGED <<walletSide, pending, txList, txLoads, toast>>
  /\ UNCHANGED <<backupSide, backupLoads, callSide>>

\* loadTransactions(selectedWallet.id) at the end of signTransaction
SignTransactionReload(c) ==
  /\ pc[c] = "st_reload"
  /\ txList' = [txList EXCEPT ![c] = getWalletTransactions(selectedWallet[c].id)]
  /\ toast' = [toast EXCEPT ![c] = <<"Transaction Signed", "Signature added to transaction">>]
  /\ pc' = [pc EXCEPT ![c] = "idle"]
  /\ pending' = [pending EXCEPT ![c] = NoPending]
  /\ UNCHANGED <<walletSide, transactions, txLoads>>
  /\ UNCHANGED <<backupSide, backupLoads, callSide>>

\* ------------------------------------------------ walletService: wallets
\* numbers typed into the m and n fields
ConfigInputs == 1..MaxN

\* CHECK constraints of table wallets
WalletInsertOk(row) ==
  /\ row.m > 0 /\ row.m <= MaxSigners
  /\ row.n > 0 /\ row.n <= MaxSigners /\ row.n >= row.m

\* getUserWallets: all rows, newest first
getUserWallets == Reverse(wallets)

\* wallet_keys without its UNIQUE(wallet_id, key_index)
KeyIndexUnchecked(row) == TRUE

\* UNIQUE(wallet_id, key_index) of table wallet_keys
KeyIndexFree(row) ==
  \A r \in wallet_keys :
    ~(r.wallet_id = row.wallet_id /\ r.key_index = row.key_index)

\* wallet_keys without its UNIQUE(wallet_id, public_key)
PublicKeyUnchecked(row) == TRUE

\* UNIQUE(wallet_id, public_key) of table wallet_keys
PublicKeyFree(row) ==
  \A r \in wallet_keys :
    ~(r.wallet_id = row.wallet_id /\ r.public_key = row.public_key)

\* the constraints an insert into wallet_keys has to meet
\* (wallet_id REFERENCES wallets(id), the two UNIQUE constraints)
WalletKeyInsertOk(row) ==
  /\ row.wallet_id \in 1..Len(wallets)
  /\ KeyIndexFree(row)
  /\ PublicKeyFree(row)

RECURSIVE OrderByKeyIndex(_)
\* ORDER BY key_index ASC
OrderByKeyIndex(rows) ==
  IF rows = {} THEN <<>>
  ELSE LET first == CHOOSE r \in rows : \A q \in rows : r.key_index <= q.key_index
       IN <<first>> \o OrderByKeyIndex(rows \ {first})

getWalletKeys(walletId) ==
  OrderByKeyIndex({r \in wallet_keys : r.wallet_id = walletId})

\* the row updateWallet leaves behind
UpdatedWallet(row, updates) ==
  [row EXCEPT !.address = updates.address,
              !.script_hex = updates.script_hex,
              !.is_complete = updates.is_complete]

\* ------------------------------------------------------ handlers: wallets
txSide == <<transactions, txList>>

\* useEffect([selectedWallet]): loadWalletKeys and loadTransactions are called
\* for the wallet that was selected, and loadKeyBackup by PrivateKeyBackup
SelectWallet(c, wallet) ==
  /\ selectedWallet' = [selectedWallet EXCEPT ![c] = wallet]
  /\ keyLoads' = [keyLoads EXCEPT ![c] = @ \cup {wallet.id}]
  /\ txLoads' = [txLoads EXCEPT ![c] = @ \cup {wallet.id}]
  /\ backupLoads' = [backupLoads EXCEPT ![c] = @ \cup {wallet.id}]

\* loadWallets of the mount effect resolves (its closure has selectedWallet = null)
MountLoadWallets(c) ==
  /\ mountLoad[c]
  /\ mountLoad' = [mountLoad EXCEPT ![c] = FALSE]
  /\ LET userWallets == getUserWallets IN
     IF Len(userWallets) > 0
     THEN SelectWallet(c, userWallets[1])
     ELSE UNCHANGED <<selectedWallet, keyLoads, txLoads, backupLoads>>
  /\ UNCHANGED <<wallets, wallet_keys, walletKeys, addressWrites, txSide, pc,
                 pending, toast>>
  /\ UNCHANGED <<backupSide, callSide>>

\* loadWalletKeys(walletId) of the selectedWallet effect resolves
LoadWalletKeysEffect(c, walletId) ==
  /\ walletId \in keyLoads[c]
  /\ keyLoads' = [keyLoads EXCEPT ![c] = @ \ {walletId}]
  /\ walletKeys' = [walletKeys EXCEPT ![c] = getWalletKeys(walletId)]
  /\ UNCHANGED <<wallets, wallet_keys, selectedWallet, mountLoad, txLoads,
                 addressWrites, txSide, pc, pending, toast>>
  /\ UNCHANGED <<backupSide, backupLoads, callSide>>

\* createWallet up to its first await; the button is rendered while no wallet
\* is selected
CreateWalletStart(c, m, n) ==
  /\ pc[c] = "idle"
  /\ selectedWallet[c].id = 0
  /\ pc' = [pc EXCEPT ![c] = "cw_insert"]
  /\ pending' = [pending EXCEPT ![c] =
       [op |-> "createWallet",
        row |-> [m |-> m, n |-> n, address |-> Null, script_hex |-> Null,
                 is_complete |-> FALSE]]]
  /\ UNCHANGED <<walletSide, txLoads, txSide, toast>>
  /\ UNCHANGED <<backupSide, backupLoads, callSide>>

\* walletService.createWallet: the insert
CreateWalletInsert(c) ==
  /\ pc[c] = "cw_insert"
  /\ IF WalletInsertOk(pending[c].row)
     THEN LET wallet == [id |-> Len(wallets) + 1] @@ pending[c].row IN
          /\ wallets' = Append(wallets, wallet)
          /\ pc' = [pc EXCEPT ![c] = "cw_load"]
          /\ pending' = [pending EXCEPT ![c] = [op |-> "createWallet", row |-> wallet]]
          /\ UNCHANGED toast
     ELSE /\ toast' = [toast EXCEPT ![c] = <<"Error", "Failed to create wallet">>]
          /\ pc' = [pc EXCEPT ![c] = "idle"]
          /\ pending' = [pending EXCEPT ![c] = NoPending]
          /\ UNCHANGED wallets
  /\ UNCHANGED <<wallet_keys, selectedWallet, walletKeys, mountLoad, keyLoads,
                 txLoads, addressWrites, txSide>>
  /\ UNCHANGED <<backupSide, backupLoads, callSide>>

\* createWallet: await loadWallets(), then setSelectedWallet(wallet)
CreateWalletLoad(c) ==
  /\ pc[c] = "cw_load"
  /\ SelectWallet(c, pending[c].row)
  /\ toast' = [toast EXCEPT ![c] = <<"Wallet Created", "wallet created successfully">>]
  /\ pc' = [pc EXCEPT ![c] = "idle"]
  /\ pending' = [pending EXCEPT ![c] = NoPending]
  /\ UNCHANGED <<wallets, wallet_keys, walletKeys, mountLoad, addressWrites, txSide>>
  /\ UNCHANGED <<backupSide, callSide>>

\* addPublicKey up to its first await; the button is disabled while
\* walletKeys.length >= selectedWallet.n
AddPublicKeyStart(c, newPubKey) ==
  /\ pc[c] = "idle"
  /\ selectedWallet[c].id # 0
  /\ Len(walletKeys[c]) < selectedWallet[c].n
  /\ IF ~validatePublicKey(newPubKey).valid
     THEN /\ toast' = [toast EXCEPT ![c] =
                 <<"Invalid Public Key", "Please enter a valid Bitcoin public key in hex format">>]
          /\ UNCHANGED <<pc, pending>>
     ELSE /\ pc' = [pc EXCEPT ![c] = "ak_insert"]
          /\ pending' = [pending EXCEPT ![c] =
               [op |-> "addPublicKey",
                row |-> [wallet_id |-> selectedWallet[c].id,
                         public_key |-> newPubKey,
                         key_index |-> Len(walletKeys[c]),
                         encrypted_private_key |-> Null]]]
          /\ UNCHANGED toast
  /\ UNCHANGED <<walletSide, txLoads, txSide>>
  /\ UNCHANGED <<backupSide, backupLoads, callSide>>

\* walletService.addWalletKey: the insert
AddWalletKey(c) ==
  /\ pc[c] = "ak_insert"
  /\ IF WalletKeyInsertOk(pending[c].row)
     THEN /\ wallet_keys' = wallet_keys \cup {pending[c].row}
          /\ pc' = [pc EXCEPT ![c] = "ak_reload"]
          /\ UNCHANGED <<pending, toast>>
     ELSE /\ toast' = [toast EXCEPT ![c] = <<"Error", "Failed to add public key">>]
          /\ pc' = [pc EXCEPT ![c] = "idle"]
          /\ pending' = [pending EXCEPT ![c] = NoPending]
          /\ UNCHANGED wallet_keys
  /\ UNCHANGED <<wallets, selectedWallet, walletKeys, mountLoad, keyLoads,
                 txLoads, addressWrites, txSide>>
  /\ UNCHANGED <<backupSide, backupLoads, callSide>>

\* addPublicKey: await loadWalletKeys(selectedWallet.id)
AddPublicKeyReload(c) ==
  /\ pc[c] = "ak_reload"
  /\ walletKeys' = [walletKeys EXCEPT ![c] = getWalletKeys(pending[c].row.wallet_id)]
  /\ toast' = [toast EXCEPT ![c] = <<"Public Key Added", "Successfully added to wallet">>]
  /\ pc' = [pc EXCEPT ![c] = "idle"]
  /\ pending' = [pending EXCEPT ![c] = NoPending]
  /\ UNCHANGED <<wallets, wallet_keys, selectedWallet, mountLoad, keyLoads,
                 txLoads, addressWrites, txSide>>
  /\ UNCHANGED <<backupSide, backupLoads, callSide>>

\* completeWallet up to its first await; the button is rendered while
\* walletKeys.length === selectedWallet.n && !selectedWallet.address
CompleteWalletStart(c) ==
  /\ pc[c] = "idle"
  /\ selectedWallet[c].id # 0
  /\ Len(walletKeys[c]) = selectedWallet[c].n
  /\ selectedWallet[c].address = Null
  /\ LET publicKeys == [i \in 1..Len(walletKeys[c]) |-> walletKeys[c][i].public_key]
         multisigResult == createMultisigAddress(selectedWallet[c].m, publicKeys) IN
     IF ~multisigResult.ok
     THEN /\ toast' = [toast EXCEPT ![c] = <<"Error", "Failed to generate multisig address">>]
          /\ UNCHANGED <<pc, pending>>
     ELSE /\ pc' = [pc EXCEPT ![c] = "fw_update"]
          /\ pending' = [pending EXCEPT ![c] =
               [op |-> "completeWallet", id |-> selectedWallet[c].id,
                updates |-> [address |-> multisigResult.address,
                             script_hex |-> multisigResult.scriptHex,
                             is_complete |-> TRUE]]]
          /\ UNCHANGED toast
  /\ UNCHANGED <<walletSide, txLoads, txSide>>
  /\ UNCHANGED <<backupSide, backupLoads, callSide>>

\* walletService.updateWallet(selectedWallet.id, {address, script_hex, is_complete})
UpdateWallet(c) ==
  /\ pc[c] = "fw_update"
  /\ LET id == pending[c].id IN
     /\ wallets' = [wallets EXCEPT ![id] = UpdatedWallet(@, pending[c].updates)]
     /\ addressWrites' = [addressWrites EXCEPT ![id] = IF @ < 2 THEN @ + 1 ELSE @]
  /\ pc' = [pc EXCEPT ![c] = "fw_load"]
  /\ UNCHANGED <<wallet_keys, selectedWallet, walletKeys, mountLoad, keyLoads,
                 txLoads, txSide, pending, toast>>
  /\ UNCHANGED <<backupSide, backupLoads, callSide>>

\* completeWallet: await loadWallets() (its closure has a selected wallet, so
\* only the wallets list is refreshed), then the toast
CompleteWalletLoad(c) ==
  /\ pc[c] = "fw_load"
  /\ toast' = [toast EXCEPT ![c] = <<"Multisig Address Generated", "address created successfully">>]
  /\ pc' = [pc EXCEPT ![c] = "idle"]
  /\ pending' = [pending EXCEPT ![c] = NoPending]
  /\ UNCHANGED <<walletSide, txLoads, txSide>>
  /\ UNCHANGED <<backupSide, backupLoads, callSide>>

\* ------------------------------------------ walletService: key backups
\* id of a wallet_keys row (its UUID): the wallet and the key's index
KeyId(row) == <<row.wallet_id, row.key_index>>

\* getKeyBackup(walletId): the wallet's KeyBackup record, null without one
getKeyBackup(walletId) ==
  LET rows == SelectRows(key_backups, walletId) IN
  IF rows = <<>> THEN Null ELSE rows[1]

\* table key_backups after a createKeyBackup that inserts whatever is there
KeyBackupsInserted(walletId, salt, iv) ==
  Append(key_backups, [wallet_id |-> walletId, salt |-> salt, iv |-> iv])

\* table key_backups after createKeyBackup(walletId, salt, iv): the record
\* is created unless the wallet has one
KeyBackupsCreated(walletId, salt, iv) ==
  IF getKeyBackup(walletId) # Null
  THEN key_backups
  ELSE Append(key_backups, [wallet_id |-> walletId, salt |-> salt, iv |-> iv])

\* table wallet_keys after updateWalletKeyWithPrivateKey(keyId, ciphertext)
WalletKeysWithPrivateKey(keyId, encryptedPrivateKey) ==
  {IF KeyId(r) = keyId
   THEN [r EXCEPT !.encrypted_private_key = encryptedPrivateKey]
   ELSE r : r \in wallet_keys}

\* ------------------------------------------- handlers: PrivateKeyBackup
\* passwords typed into the backup form (password and confirmation alike)
BackupPasswords == {"password123", "short"}
\* passwords typed into the decrypt field
DecryptPasswords == {"password123", "wrongpass"}
\* password.length
PasswordLength(password) ==
  CASE password = "password123" -> 11
    [] password = "wrongpass" -> 9
    [] password = "short" -> 5
    [] OTHER -> 0
\* the salt and iv of one call of encrypt (two calls of WordArray.random)
RandomDraws == {[salt |-> "5a17", iv |-> "1f00"], [salt |-> "5a18", iv |-> "1f01"]}

\* what decrypt tells apart of WrongKeyBytes: bytes it throws on (here the
\* ones that are not UTF-8) and bytes it returns as text
WrongKeyOutcomes == {b \in WrongKeyBytes : ~b.utf8 \/ b.text # ""}

\* generatePrivateKeys: the private key session c generates for a wallet key
privateKey(c, walletKey) ==
  "priv_" \o c \o (IF walletKey.key_index = 0 THEN "_0" ELSE "_1")

\* the loop of decryptBackup with a failing key left out instead of
\* failing the whole
DecryptAllLenient(keys, password, backup, garbled) ==
  LET stored == {i \in 1..Len(keys) : keys[i].encrypted_private_key # Null}
      result == [i \in stored |->
                  decrypt(keys[i].encrypted_private_key, password,
                          backup.salt, backup.iv, garbled[i])] IN
  [ok |-> TRUE,
   decrypted |-> {<<KeyId(keys[i]), result[i].text>> :
                    i \in {k \in stored : result[k].ok}}]

\* the loop of decryptBackup over walletKeys: the keys without ciphertext are
\* passed over, one failing key fails the whole
DecryptAll(keys, password, backup, garbled) ==
  LET stored == {i \in 1..Len(keys) : keys[i].encrypted_private_key # Null}
      result == [i \in stored |->
                  decrypt(keys[i].encrypted_private_key, password,
                          backup.salt, backup.iv, garbled[i])] IN
  IF \E i \in stored : ~result[i].ok
  THEN [ok |-> FALSE, decrypted |-> {}]
  ELSE [ok |-> TRUE,
        decrypted |-> {<<KeyId(keys[i]), result[i].text>> : i \in stored}]

parentSide == <<wallets, selectedWallet, walletKeys, mountLoad, keyLoads,
                txLoads, addressWrites, transactions, txList>>

\* loadKeyBackup() of the selectedWallet effect resolves
LoadKeyBackupEffect(c, walletId) ==
  /\ walletId \in backupLoads[c]
  /\ backupLoads' = [backupLoads EXCEPT ![c] = @ \ {walletId}]
  /\ keyBackup' = [keyBackup EXCEPT ![c] = getKeyBackup(walletId)]
  /\ UNCHANGED <<parentSide, wallet_keys, key_backups, decryptedKeys,
                 decryptPassword, pc, pending, toast, callSide>>

\* createBackup up to its first await; the form is rendered while keyBackup
\* is null and the button is disabled without a password or without keys
CreateBackupStart(c, password, draw) ==
  /\ pc[c] = "idle"
  /\ selectedWallet[c].id # 0
  /\ keyBackup[c] = Null
  /\ Len(walletKeys[c]) > 0
  /\ IF PasswordLength(password) < 8
     THEN /\ toast' = [toast EXCEPT ![c] =
                 <<"Error", "Password must be at least 8 characters long">>]
          /\ UNCHANGED <<pc, pending>>
     ELSE /\ pc' = [pc EXCEPT ![c] = "cb_create"]
          /\ pending' = [pending EXCEPT ![c] =
               [op |-> "createBackup", password |-> password,
                wallet_id |-> selectedWallet[c].id,
                encryptionResult |-> encrypt("test", password, draw.salt, draw.iv),
                keys |-> walletKeys[c], j |-> 1, backup |-> Null]]
          /\ UNCHANGED toast
  /\ UNCHANGED <<parentSide, wallet_keys, backupSide, backupLoads, callSide>>

\* walletService.createKeyBackup(selectedWallet.id, salt, iv)
CreateKeyBackup(c) ==
  /\ pc[c] = "cb_create"
  /\ LET p == pending[c] IN
     /\ key_backups' = KeyBackupsCreated(p.wallet_id, p.encryptionResult.salt,
                                         p.encryptionResult.iv)
     /\ pending' = [pending EXCEPT ![c].backup =
                      SelectRows(key_backups', p.wallet_id)[1]]
  /\ pc' = [pc EXCEPT ![c] = "cb_write"]
  /\ UNCHANGED <<parentSide, wallet_keys, keyBackup, decryptedKeys,
                 decryptPassword, backupLoads, toast, callSide>>

\* one turn of the loop of createBackup: encrypt the private key and
\* updateWalletKeyWithPrivateKey; after the last key the backup is shown
CreateBackupWrite(c, draw) ==
  /\ pc[c] = "cb_write"
  /\ LET p == pending[c]
         walletKey == p.keys[p.j]
         encryptedPrivateKey ==
           encrypt(privateKey(c, walletKey), p.password, draw.salt, draw.iv) IN
     /\ wallet_keys' = WalletKeysWithPrivateKey(KeyId(walletKey),
                                                encryptedPrivateKey.encryptedData)
     /\ IF p.j < Len(p.keys)
        THEN /\ pending' = [pending EXCEPT ![c].j = @ + 1]
             /\ UNCHANGED <<pc, keyBackup, toast>>
        ELSE /\ keyBackup' = [keyBackup EXCEPT ![c] = p.backup]
             /\ toast' = [toast EXCEPT ![c] = <<"Backup Created",
                  "Private keys have been encrypted and backed up securely">>]
             /\ pc' = [pc EXCEPT ![c] = "idle"]
             /\ pending' = [pending EXCEPT ![c] = NoPending]
  /\ UNCHANGED <<parentSide, key_backups, decryptedKeys, decryptPassword,
                 backupLoads, callSide>>

\* a failing store write that is undone: the ciphertexts and the KeyBackup of
\* the wallet are removed again
CreateBackupWriteRolledBack(c) ==
  /\ pc[c] = "cb_write"
  /\ wallet_keys' = {IF r.wallet_id = pending[c].wallet_id
                      THEN [r EXCEPT !.encrypted_private_key = Null]
                      ELSE r : r \in wallet_keys}
  /\ key_backups' = SelectSeq(key_backups,
                       LAMBDA b : b.wallet_id # pending[c].wallet_id)
  /\ toast' = [toast EXCEPT ![c] = <<"Error", "Failed to create backup">>]
  /\ pc' = [pc EXCEPT ![c] = "idle"]
  /\ pending' = [pending EXCEPT ![c] = NoPending]
  /\ UNCHANGED <<parentSide, keyBackup, decryptedKeys, decryptPassword,
                 backupLoads, callSide>>

\* one turn of the loop of createBackup whose updateWalletKeyWithPrivateKey
\* is rejected: the catch block reports the failure, nothing is undone
CreateBackupWriteFails(c) ==
  /\ pc[c] = "cb_write"
  /\ toast' = [toast EXCEPT ![c] = <<"Error", "Failed to create backup">>]
  /\ pc' = [pc EXCEPT ![c] = "idle"]
  /\ pending' = [pending EXCEPT ![c] = NoPending]
  /\ UNCHANGED <<parentSide, wallet_keys, backupSide, backupLoads, callSide>>

\* decryptBackup (it has no await); the panel is rendered while keyBackup is
\* set and the button is disabled without a password
DecryptBackup(c, password, garbled) ==
  /\ keyBackup[c] # Null
  /\ LET all == DecryptAll(walletKeys[c], password, keyBackup[c], garbled) IN
     IF all.ok
     THEN /\ decryptedKeys' = [decryptedKeys EXCEPT ![c] = all.decrypted]
          /\ decryptPassword' = [decryptPassword EXCEPT ![c] = ""]
          /\ toast' = [toast EXCEPT ![c] = <<"Backup Decrypted",
               "Private keys have been successfully decrypted">>]
     ELSE /\ decryptPassword' = [decryptPassword EXCEPT ![c] = password]
          /\ toast' = [toast EXCEPT ![c] = <<"Error",
               "Failed to decrypt backup. Please check your password.">>]
          /\ UNCHANGED decryptedKeys
  /\ UNCHANGED <<parentSide, wallet_keys, key_backups, keyBackup, backupLoads,
                 pc, pending, callSide>>

\* fields a backup document must have
BundleFields == {"version", "walletId", "encryption", "encryptedKeys"}

\* a document as exportEncryptedBackup writes it for wallet walletId: the
\* fields it has, and an entry for the key 02aa and one for a key 02dd
Bundle(fields, walletId) ==
  [fields |-> fields,
   walletId |-> walletId,
   encryption |-> [salt |-> "5a18", iv |-> "1f01"],
   encryptedKeys |->
     <<[publicKey |-> "02aa",
        encryptedPrivateKey |->
          AESEncrypt("priv_a", deriveKey("password123", "5a18"), "1f01")],
       [publicKey |-> "02dd",
        encryptedPrivateKey |->
          AESEncrypt("priv_d", deriveKey("password123", "5a18"), "1f01")]>>]

\* files selected for import: a document of wallet 1, one of another wallet,
\* and documents of wallet 1 that lack one field
Documents == {Bundle(BundleFields, 1), Bundle(BundleFields, 2)}
               \cup {Bundle(BundleFields \ {f}, 1) : f \in BundleFields}

\* no test of the document's fields
AnyBackupFormat(backupData) == TRUE

\* the format test of importEncryptedBackup: version, walletId, encryption
\* and encryptedKeys are all there
ValidBackupFormat(backupData) == backupData.fields = BundleFields

\* no test of the document's wallet
BelongsToAnyWallet(backupData, walletId) == TRUE

\* the wallet test of importEncryptedBackup
BelongsToWallet(backupData, walletId) == backupData.walletId = walletId

\* every key is taken for the key of an entry
MatchesAnyEntry(walletKey, keyData) == TRUE

\* the test of walletKeys.find in importEncryptedBackup
MatchesEntry(walletKey, keyData) == walletKey.public_key = keyData.publicKey

RECURSIVE ImportWrites(_, _)
\* the loop of importEncryptedBackup: the updateWalletKeyWithPrivateKey
\* calls it makes, one for every entry that has a ciphertext and whose
\* publicKey is the public_key of a key of walletKeys
ImportWrites(encryptedKeys, keys) ==
  IF encryptedKeys = <<>> THEN <<>>
  ELSE LET keyData == Head(encryptedKeys)
           found == {i \in 1..Len(keys) : MatchesEntry(keys[i], keyData)}
           rest == ImportWrites(Tail(encryptedKeys), keys) IN
       IF keyData.encryptedPrivateKey # Null /\ found # {}
       THEN <<[keyId |-> KeyId(keys[CHOOSE i \in found : \A k \in found : i <= k]),
               encryptedPrivateKey |-> keyData.encryptedPrivateKey]>> \o rest
       ELSE rest

\* importEncryptedBackup up to its first await (importFile.text()); the
\* section is rendered while keyBackup is set
ImportStart(c, document) ==
  /\ pc[c] = "idle"
  /\ selectedWallet[c].id # 0
  /\ keyBackup[c] # Null
  /\ pc' = [pc EXCEPT ![c] = "ib_read"]
  /\ pending' = [pending EXCEPT ![c] =
       [op |-> "importEncryptedBackup", backupData |-> document,
        wallet_id |-> selectedWallet[c].id, keyBackup |-> keyBackup[c],
        keys |-> walletKeys[c], j |-> 1, writes |-> <<>>]]
  /\ UNCHANGED <<parentSide, wallet_keys, backupSide, backupLoads, toast,
                 callSide>>

\* importEncryptedBackup from the parsed document to its next await
ImportRead(c) ==
  /\ pc[c] = "ib_read"
  /\ LET p == pending[c]
         backupData == p.backupData
         writes == ImportWrites(backupData.encryptedKeys, p.keys) IN
     IF ~ValidBackupFormat(backupData)
     THEN /\ toast' = [toast EXCEPT ![c] = <<"Import Failed",
               "Failed to import backup file. Please check the file format.">>]
          /\ pc' = [pc EXCEPT ![c] = "idle"]
          /\ pending' = [pending EXCEPT ![c] = NoPending]
          /\ UNCHANGED key_backups
     ELSE IF ~BelongsToWallet(backupData, p.wallet_id)
     THEN /\ toast' = [toast EXCEPT ![c] = <<"Warning",
               "This backup belongs to a different wallet. Import anyway?">>]
          /\ pc' = [pc EXCEPT ![c] = "idle"]
          /\ pending' = [pending EXCEPT ![c] = NoPending]
          /\ UNCHANGED key_backups
     ELSE /\ key_backups' =
               IF p.keyBackup = Null
               THEN KeyBackupsCreated(backupData.walletId,
                                      backupData.encryption.salt,
                                      backupData.encryption.iv)
               ELSE key_backups
          /\ IF writes = <<>>
             THEN /\ toast' = [toast EXCEPT ![c] = <<"Backup Imported",
                       "Encrypted backup has been successfully imported">>]
                  /\ pc' = [pc EXCEPT ![c] = "idle"]
                  /\ pending' = [pending EXCEPT ![c] = NoPending]
             ELSE /\ pc' = [pc EXCEPT ![c] = "ib_write"]
                  /\ pending' = [pending EXCEPT ![c].writes = writes]
                  /\ UNCHANGED toast
  /\ UNCHANGED <<parentSide, wallet_keys, keyBackup, decryptedKeys,
                 decryptPassword, backupLoads, callSide>>

\* one turn of the loop of importEncryptedBackup:
\* updateWalletKeyWithPrivateKey; after the last entry the import is reported
ImportWrite(c) ==
  /\ pc[c] = "ib_write"
  /\ LET p == pending[c]
         write == p.writes[p.j] IN
     /\ wallet_keys' = WalletKeysWithPrivateKey(write.keyId,
                                                write.encryptedPrivateKey)
     /\ IF p.j < Len(p.writes)
        THEN /\ pending' = [pending EXCEPT ![c].j = @ + 1]
             /\ UNCHANGED <<pc, toast>>
        ELSE /\ toast' = [toast EXCEPT ![c] = <<"Backup Imported",
                  "Encrypted backup has been successfully imported">>]
             /\ pc' = [pc EXCEPT ![c] = "idle"]
             /\ pending' = [pending EXCEPT ![c] = NoPending]
  /\ UNCHANGED <<parentSide, key_backups, keyBackup, decryptedKeys,
                 decryptPassword, backupLoads, callSide>>

\* ---------------------------------------- specification: one wallet's keys
WalletIds == 1..Cardinality(Clients)

\* a wallet row as createWallet inserts it
NewWallet(id, m, n) ==
  [id |-> id, m |-> m, n |-> n, address |-> Null, script_hex |-> Null,
   is_complete |-> FALSE]

\* no backup was made and no session holds one
NoBackups ==
  /\ key_backups = <<>>
  /\ keyBackup = [c \in Clients |-> Null]
  /\ decryptedKeys = [c \in Clients |-> {}]
  /\ decryptPassword = [c \in Clients |-> ""]
  /\ backupLoads = [c \in Clients |-> {}]

\* cryptoService has not been called
CallsUnused ==
  /\ encInput = Null
  /\ encResult = Null
  /\ decResult = Null
  /\ buildInput = Null
  /\ buildResult = Null

\* every session has just been opened: nothing selected, nothing loaded, the
\* loadWallets call of the mount effect is in flight
FreshSessions ==
  /\ selectedWallet = [c \in Clients |-> NoWallet]
  /\ walletKeys = [c \in Clients |-> <<>>]
  /\ txList = [c \in Clients |-> <<>>]
  /\ pc = [c \in Clients |-> "idle"]
  /\ pending = [c \in Clients |-> NoPending]
  /\ toast = [c \in Clients |-> <<"", "">>]
  /\ mountLoad = [c \in Clients |-> TRUE]
  /\ keyLoads = [c \in Clients |-> {}]
  /\ txLoads = [c \in Clients |-> {}]

\* the owner has one wallet, created earlier with any accepted m and n and
\* still without keys, and opens the application in every session
Init ==
  /\ \E m \in ConfigInputs, n \in ConfigInputs :
       /\ WalletInsertOk(NewWallet(1, m, n))
       /\ wallets = <<NewWallet(1, m, n)>>
  /\ wallet_keys = {}
  /\ transactions = <<>>
  /\ addressWrites = [w \in WalletIds |-> 0]
  /\ FreshSessions
  /\ NoBackups /\ CallsUnused

\* the sessions add keys to the wallet and finalize it
Next ==
  \/ \E c \in Clients : MountLoadWallets(c)
  \/ \E c \in Clients : \E w \in keyLoads[c] : LoadWalletKeysEffect(c, w)
  \/ \E c \in Clients, k \in PubKeyInputs : AddPublicKeyStart(c, k)
  \/ \E c \in Clients : AddWalletKey(c)
  \/ \E c \in Clients : AddPublicKeyReload(c)
  \/ \E c \in Clients : CompleteWalletStart(c)
  \/ \E c \in Clients : UpdateWallet(c)
  \/ \E c \in Clients : CompleteWalletLoad(c)

Spec == Init /\ [][Next]_vars

\* ------------------------------------- specification: creating wallets
\* public keys typed while wallets are created side by side
CreatePubKeyInputs == {"02aa", "03bb"}

\* the store is empty and every session has just been opened
InitCreate ==
  /\ wallets = <<>>
  /\ wallet_keys = {}
  /\ transactions = <<>>
  /\ addressWrites = [w \in WalletIds |-> 0]
  /\ FreshSessions
  /\ NoBackups /\ CallsUnused

\* the sessions create 1-of-1 wallets, add keys and finalize
NextCreate ==
  \/ \E c \in Clients : MountLoadWallets(c)
  \/ \E c \in Clients : \E w \in keyLoads[c] : LoadWalletKeysEffect(c, w)
  \/ \E c \in Clients : CreateWalletStart(c, 1, 1)
  \/ \E c \in Clients : CreateWalletInsert(c)
  \/ \E c \in Clients : CreateWalletLoad(c)
  \/ \E c \in Clients, k \in CreatePubKeyInputs : AddPublicKeyStart(c, k)
  \/ \E c \in Clients : AddWalletKey(c)
  \/ \E c \in Clients : AddPublicKeyReload(c)
  \/ \E c \in Clients : CompleteWalletStart(c)
  \/ \E c \in Clients : UpdateWallet(c)
  \/ \E c \in Clients : CompleteWalletLoad(c)

SpecCreate == InitCreate /\ [][NextCreate]_vars

\* ------------------------------ specification: a wallet with stored keys
\* public keys handed to walletService.addWalletKey, which stores the text it
\* is given
StoredKeyInputs == {"02aa", "03bb", "02ff"}

\* the owner has one wallet, not finalized, some or all of whose n keys were
\* stored through walletService.addWalletKey, and opens the application in
\* every session
InitStored ==
  /\ \E m \in ConfigInputs, n \in ConfigInputs :
       /\ WalletInsertOk(NewWallet(1, m, n))
       /\ wallets = <<NewWallet(1, m, n)>>
       /\ \E k \in 1..n : \E keys \in [1..k -> StoredKeyInputs] :
            /\ \A i \in 1..k : \A j \in 1..k : keys[i] = keys[j] => i = j
            /\ wallet_keys = {[wallet_id |-> 1, public_key |-> keys[i],
                               key_index |-> i - 1,
                               encrypted_private_key |-> Null] : i \in 1..k}
  /\ transactions = <<>>
  /\ addressWrites = [w \in WalletIds |-> 0]
  /\ FreshSessions
  /\ NoBackups /\ CallsUnused

SpecStored == InitStored /\ [][Next]_vars

\* ------------------------------------------- specification: cryptoService
\* data, passwords, and the values WordArray.random(128 / 8) produces
Plaintexts == {"", "priv1", "priv2"}
Passwords == {"password123", "wrongpass", ""}
Salts == {"5a17", "5a18"}
Ivs == {"1f00", "1f01"}

\* a caller is about to encrypt some data under some password
InitCrypto ==
  /\ wallets = <<>>
  /\ wallet_keys = {}
  /\ transactions = <<>>
  /\ addressWrites = [w \in WalletIds |-> 0]
  /\ FreshSessions
  /\ NoBackups
  /\ encInput \in [data : Plaintexts, password : Passwords]
  /\ encResult = Null
  /\ decResult = Null
  /\ buildInput = Null
  /\ buildResult = Null

\* encrypt(data, password) returns
Encrypt(salt, iv) ==
  /\ encResult = Null
  /\ encResult' = encrypt(encInput.data, encInput.password, salt, iv)
  /\ UNCHANGED <<walletSide, txSide, txLoads, pc, pending, toast, backupSide,
                 backupLoads, encInput, decResult, buildInput, buildResult>>

\* decrypt(encryptedData, password, salt, iv) on the result of encrypt
\* returns or throws
Decrypt(password, garbled) ==
  /\ encResult # Null
  /\ decResult = Null
  /\ decResult' =
       [password |-> password,
        result |-> decrypt(encResult.encryptedData, password, encResult.salt,
                           encResult.iv, garbled)]
  /\ UNCHANGED <<walletSide, txSide, txLoads, pc, pending, toast, backupSide,
                 backupLoads, encInput, encResult, buildInput, buildResult>>

NextCrypto ==
  \/ \E salt \in Salts, iv \in Ivs : Encrypt(salt, iv)
  \/ \E password \in Passwords, garbled \in WrongKeyBytes :
       Decrypt(password, garbled)

SpecCrypto == InitCrypto /\ [][NextCrypto]_vars

\* ------------------------------- specification: bitcoinService on its own
\* keys handed to createMultisigAddress: two curve points, 33 bytes that are
\* no point, and a key one byte short
BuildKeyInputs == {"02aa", "03bb", "02ff", "04cc"}

\* the lists of up to MaxN keys
BuildKeyLists == UNION {[1..k -> BuildKeyInputs] : k \in 0..MaxN}

InitBuild ==
  /\ wallets = <<>>
  /\ wallet_keys = {}
  /\ transactions = <<>>
  /\ addressWrites = [w \in WalletIds |-> 0]
  /\ FreshSessions
  /\ NoBackups
  /\ encInput = Null
  /\ encResult = Null
  /\ decResult = Null
  /\ buildInput \in [m : 0..(MaxN + 1), publicKeys : BuildKeyLists]
  /\ buildResult = Null

\* bitcoinService.createMultisigAddress(m, publicKeys)
CreateMultisigAddress ==
  /\ buildResult = Null
  /\ buildResult' = createMultisigAddress(buildInput.m, buildInput.publicKeys)
  /\ UNCHANGED <<walletSide, txLoads, txSide, pc, pending, toast, backupSide,
                 backupLoads, encInput, encResult, decResult, buildInput>>

NextBuild == CreateMultisigAddress

SpecBuild == InitBuild /\ [][NextBuild]_vars

\* ------------------------- specification: adding keys to created wallets
\* the sessions create 1-of-2 wallets and add keys to them
NextAddKeys ==
  \/ \E c \in Clients : MountLoadWallets(c)
  \/ \E c \in Clients : \E w \in keyLoads[c] : LoadWalletKeysEffect(c, w)
  \/ \E c \in Clients : CreateWalletStart(c, 1, 2)
  \/ \E c \in Clients : CreateWalletInsert(c)
  \/ \E c \in Clients : CreateWalletLoad(c)
  \/ \E c \in Clients, k \in CreatePubKeyInputs : AddPublicKeyStart(c, k)
  \/ \E c \in Clients : AddWalletKey(c)
  \/ \E c \in Clients : AddPublicKeyReload(c)

SpecAddKeys == InitCreate /\ [][NextAddKeys]_vars

\* ---------------------------------------------- specification: transactions
\* keys of the finalized wallet the sessions of SpecTx have selected
TxWalletKeys == <<"02aa", "03bb">>

TxWallet(m) ==
  LET r == createMultisigAddress(m, TxWalletKeys) IN
  [id |-> 1, m |-> m, n |-> Len(TxWalletKeys), address |-> r.address,
   script_hex |-> r.scriptHex, is_complete |-> TRUE]

\* every session was opened on a finalized wallet that has no transaction yet;
\* the loadTransactions call of its selectedWallet effect is still in flight
InitTx ==
  \E m \in 1..Len(TxWalletKeys) :
    /\ wallets = <<TxWallet(m)>>
    /\ wallet_keys = {[wallet_id |-> 1, public_key |-> TxWalletKeys[i],
                       key_index |-> i - 1, encrypted_private_key |-> Null] :
                         i \in 1..Len(TxWalletKeys)}
    /\ transactions = <<>>
    /\ selectedWallet = [c \in Clients |-> TxWallet(m)]
    /\ walletKeys = [c \in Clients |-> getWalletKeys(1)]
    /\ txList = [c \in Clients |-> <<>>]
    /\ pc = [c \in Clients |-> "idle"]
    /\ pending = [c \in Clients |-> NoPending]
    /\ toast = [c \in Clients |-> <<"", "">>]
    /\ mountLoad = [c \in Clients |-> FALSE]
    /\ keyLoads = [c \in Clients |-> {}]
    /\ txLoads = [c \in Clients |-> {1}]
    /\ addressWrites = [w \in WalletIds |-> IF w = 1 THEN 1 ELSE 0]
    /\ NoBackups /\ CallsUnused

NextTx ==
  \/ \E c \in Clients : \E w \in txLoads[c] : LoadTransactionsEffect(c, w)
  \/ \E c \in Clients, h \in AmountInputs : CreateTransactionStart(c, h)
  \/ \E c \in Clients : CreateTransactionInsert(c)
  \/ \E c \in Clients : CreateTransactionReload(c)
  \/ \E c \in Clients : \E i \in 1..Len(txList[c]) : SignTransactionStart(c, i)
  \/ \E c \in Clients : AddTransactionSignatureSelect(c)
  \/ \E c \in Clients : AddTransactionSignatureUpdate(c)
  \/ \E c \in Clients : SignTransactionReload(c)

SpecTx == InitTx /\ [][NextTx]_vars

\* ------------------------ specification: from empty wallet to transaction
\* the amount typed in this specification, in half satoshis
LifeAmount == 2

\* the sessions add keys to the wallet, finalize it and create transactions
NextLife ==
  \/ \E c \in Clients : MountLoadWallets(c)
  \/ \E c \in Clients : \E w \in keyLoads[c] : LoadWalletKeysEffect(c, w)
  \/ \E c \in Clients : \E w \in txLoads[c] : LoadTransactionsEffect(c, w)
  \/ \E c \in Clients, k \in CreatePubKeyInputs : AddPublicKeyStart(c, k)
  \/ \E c \in Clients : AddWalletKey(c)
  \/ \E c \in Clients : AddPublicKeyReload(c)
  \/ \E c \in Clients : CompleteWalletStart(c)
  \/ \E c \in Clients : UpdateWallet(c)
  \/ \E c \in Clients : CompleteWalletLoad(c)
  \/ \E c \in Clients : CreateTransactionStart(c, LifeAmount)
  \/ \E c \in Clients : CreateTransactionInsert(c)
  \/ \E c \in Clients : CreateTransactionReload(c)

SpecLife == Init /\ [][NextLife]_vars

\* --------------------------------------- specification: private key backup
\* the owner has a finalized 1-of-2 wallet without backup and opens the
\* application in every session
InitBackup ==
  /\ wallets = <<TxWallet(1)>>
  /\ wallet_keys = {[wallet_id |-> 1, public_key |-> TxWalletKeys[i],
                     key_index |-> i - 1, encrypted_private_key |-> Null] :
                       i \in 1..Len(TxWalletKeys)}
  /\ transactions = <<>>
  /\ addressWrites = [w \in WalletIds |-> IF w = 1 THEN 1 ELSE 0]
  /\ FreshSessions
  /\ NoBackups /\ CallsUnused

\* the sessions back the private keys up and decrypt the backup
NextBackup ==
  \/ \E c \in Clients : MountLoadWallets(c)
  \/ \E c \in Clients : \E w \in keyLoads[c] : LoadWalletKeysEffect(c, w)
  \/ \E c \in Clients : \E w \in backupLoads[c] : LoadKeyBackupEffect(c, w)
  \/ \E c \in Clients, password \in BackupPasswords, draw \in RandomDraws :
       CreateBackupStart(c, password, draw)
  \/ \E c \in Clients : CreateKeyBackup(c)
  \/ \E c \in Clients, draw \in RandomDraws : CreateBackupWrite(c, draw)
  \/ \E c \in Clients, password \in DecryptPasswords :
       \E garbled \in [1..Len(walletKeys[c]) -> WrongKeyOutcomes] :
         DecryptBackup(c, password, garbled)

SpecBackup == InitBackup /\ [][NextBackup]_vars

\* ------------------------------------ specification: importing a backup

\* the salt and iv the backups of this specification are created with,
\* other than those of the documents
ImportDraw == [salt |-> "5a17", iv |-> "1f00"]

\* the sessions back the private keys up and import backup documents
NextImport ==
  \/ \E c \in Clients : MountLoadWallets(c)
  \/ \E c \in Clients : \E w \in keyLoads[c] : LoadWalletKeysEffect(c, w)
  \/ \E c \in Clients : \E w \in backupLoads[c] : LoadKeyBackupEffect(c, w)
  \/ \E c \in Clients : CreateBackupStart(c, "password123", ImportDraw)
  \/ \E c \in Clients : CreateKeyBackup(c)
  \/ \E c \in Clients : CreateBackupWrite(c, ImportDraw)
  \/ \E c \in Clients, document \in Documents : ImportStart(c, document)
  \/ \E c \in Clients : ImportRead(c)
  \/ \E c \in Clients : ImportWrite(c)

SpecImport == InitBackup /\ [][NextImport]_vars

\* ------------------------------- specification: a backup that fails midway

\* the sessions back the private keys up, and store writes can fail
NextPartial ==
  \/ \E c \in Clients : MountLoadWallets(c)
  \/ \E c \in Clients : \E w \in keyLoads[c] : LoadWalletKeysEffect(c, w)
  \/ \E c \in Clients : \E w \in backupLoads[c] : LoadKeyBackupEffect(c, w)
  \/ \E c \in Clients : CreateBackupStart(c, "password123", ImportDraw)
  \/ \E c \in Clients : CreateKeyBackup(c)
  \/ \E c \in Clients : CreateBackupWrite(c, ImportDraw)
  \/ \E c \in Clients : CreateBackupWriteFails(c)

SpecPartial == InitBackup /\ [][NextPartial]_vars

\* ------------------------------------------------- claims: transactions
\* C1: addSignature on a transaction that is already Complete
\* (signatures.length >= requiredSignatures) fails and leaves signatures and
\* isComplete unchanged: no step appends to a row whose threshold is met.
C1_NoAppendWhenComplete ==
  [][\A i \in 1..Len(transactions) :
       Len(transactions[i].signatures) >= transactions[i].required_signatures
         => /\ transactions'[i].signatures = transactions[i].signatures
            /\ transactions'[i].is_complete = transactions[i].is_complete]_vars

\* C2: in every reachable state of a transaction, isComplete equals
\* (signatures.length >= requiredSignatures).
C2_IsCompleteMatchesThreshold ==
  \A i \in 1..Len(transactions) :
    transactions[i].is_complete =
      (Len(transactions[i].signatures) >= transactions[i].required_signatures)

\* a transaction of a 2-of-2 wallet was Pending with one signature stored ...
C2_WitnessPending ==
  \E i \in 1..Len(transactions) :
    /\ transactions[i].required_signatures = 2
    /\ Len(transactions[i].signatures) = 1
    /\ ~transactions[i].is_complete

\* ... and is Complete from the append that reaches the threshold
C2_Witness ==
  \E i \in 1..Len(transactions) :
    /\ transactions[i].required_signatures = 2
    /\ Len(transactions[i].signatures) = 2
    /\ transactions[i].is_complete
    /\ \E c \in Clients : pc[c] = "st_reload"

\* C3: the signatures sequence is append-only: the stored sequence before a
\* step is a prefix of the stored sequence after it.
C3_SignaturesAppendOnly ==
  [][\A i \in 1..Len(transactions) :
       IsPrefix(transactions[i].signatures, transactions'[i].signatures)]_vars

\* C4: the check and the append of addSignature are one atomic step, so in no
\* reachable state does signatures.length exceed requiredSignatures.
C4_NeverOverSigned ==
  \A i \in 1..Len(transactions) :
    Len(transactions[i].signatures) <= transactions[i].required_signatures

\* ------------------------------------------------------ claims: wallets
\* number of wallet_keys rows of wallet w
KeyCount(w) == Cardinality({r \in wallet_keys : r.wallet_id = w})

\* C5: finalization happens at most once per wallet, even when two finalize
\* calls run concurrently: address/scriptHex are stored exactly once.
C5_FinalizedAtMostOnce ==
  \A w \in 1..Len(wallets) : addressWrites[w] <= 1

\* C6: finalize called on a wallet that is already Finalized does not invoke
\* the address builder again and does not write address/scriptHex again: no
\* completeWallet call that starts while the stored address is set goes on to
\* the update.
C6_FinalizeOnFinalizedIsNoOp ==
  [][\A c \in Clients :
       (pc[c] = "idle" /\ pc'[c] = "fw_update")
         => wallets[selectedWallet[c].id].address = Null]_vars

\* C7: address and scriptHex are either both set or both unset, and once they
\* are set no later operation changes them.
C7_AddressSetOnceTogether ==
  [][/\ \A w \in 1..Len(wallets') :
          (wallets'[w].address = Null) = (wallets'[w].script_hex = Null)
     /\ \A w \in 1..Len(wallets) :
          wallets[w].address # Null
            => /\ wallets'[w].address = wallets[w].address
               /\ wallets'[w].script_hex = wallets[w].script_hex]_vars

\* C8: finalize takes effect only in ReadyToFinalize: a wallet whose address
\* is set has exactly n keys.
C8_FinalizedHasAllKeys ==
  \A w \in 1..Len(wallets) :
    wallets[w].address # Null => KeyCount(w) = wallets[w].n

\* C9: the number of keys stored for a wallet never exceeds the wallet's n.
C9_KeysNeverExceedN ==
  \A w \in 1..Len(wallets) : KeyCount(w) <= wallets[w].n

\* the wallet holds its n keys and a further addKey has been rejected
C9_Witness ==
  \E c \in Clients :
    /\ toast[c] = <<"Error", "Failed to add public key">>
    /\ selectedWallet[c].id = 1
    /\ wallets[1].n = 1
    /\ KeyCount(1) = 1

KeyIndexes(w) == {r.key_index : r \in {q \in wallet_keys : q.wallet_id = w}}

\* C11: addKey assigns the next sequential keyIndex: the keyIndex values of a
\* wallet with k keys are exactly 0..k-1, each used once.
C11_KeyIndexesSequential ==
  \A w \in 1..Len(wallets) : KeyIndexes(w) = 0..(KeyCount(w) - 1)

\* the public key fails validation as the claim words it: its decoded length
\* is not 33 or 65 bytes, or it is not a curve point
KeyFails(k) ==
  \/ HexDecode(k)[1] \notin {CompressedLen, UncompressedLen}
  \/ ~isPoint(HexDecode(k))

\* C12: addKey with a public key that fails validatePublicKey is rejected
\* before any store call: the step that shows the rejection leaves the
\* tables and the handler where they were, and no failing key is ever handed
\* to the insert or stored.
C12_InvalidKeyRejectedBeforeStore ==
  [][/\ \A c \in Clients :
          (toast'[c] # toast[c] /\ toast'[c][1] = "Invalid Public Key")
            => /\ UNCHANGED <<wallets, wallet_keys>>
               /\ pc'[c] = "idle" /\ pending'[c] = NoPending
     /\ \A c \in Clients :
          pc'[c] = "ak_insert" => ~KeyFails(pending'[c].row.public_key)
     /\ \A r \in wallet_keys' : ~KeyFails(r.public_key)]_vars

\* a session that has one key stored in the wallet has had a failing key
\* rejected, and the wallet still holds that one key
C12_Witness ==
  \E c \in Clients :
    /\ toast[c][1] = "Invalid Public Key"
    /\ pc[c] = "idle"
    /\ selectedWallet[c].id = 1
    /\ Len(walletKeys[c]) = 1
    /\ KeyCount(1) = 1

\* wallet w holds a key the address builder rejects
HoldsRejectedKey(w) ==
  \E r \in wallet_keys : r.wallet_id = w /\ ~isPoint(HexDecode(r.public_key))

\* C13: when the address builder fails during finalize, nothing is stored:
\* the step that reports the failure leaves the wallets table as it was and
\* the Generate button usable (the handler is idle, the keys are all there,
\* no address is shown), and a wallet the builder fails on keeps address and
\* scriptHex unset and isComplete false.
C13_BuilderFailureStoresNothing ==
  [][/\ \A c \in Clients :
          (toast'[c] # toast[c]
             /\ toast'[c] = <<"Error", "Failed to generate multisig address">>)
            => /\ UNCHANGED <<wallets, wallet_keys>>
               /\ pc'[c] = "idle"
               /\ selectedWallet'[c].id # 0
               /\ Len(walletKeys'[c]) = selectedWallet'[c].n
               /\ selectedWallet'[c].address = Null
     /\ \A w \in 1..Len(wallets') :
          HoldsRejectedKey(w)'
            => /\ wallets'[w].address = Null
               /\ wallets'[w].script_hex = Null
               /\ ~wallets'[w].is_complete]_vars

\* a session has had finalize fail on the wallet's keys, and the wallet is
\* still without address
C13_Witness ==
  \E c \in Clients :
    /\ toast[c] = <<"Error", "Failed to generate multisig address">>
    /\ pc[c] = "idle"
    /\ selectedWallet[c].id = 1
    /\ Len(walletKeys[c]) = wallets[1].n
    /\ HoldsRejectedKey(1)
    /\ wallets[1].address = Null /\ ~wallets[1].is_complete

\* C14: a transaction's requiredSignatures is the wallet's m at the moment of
\* create and never changes afterwards: every stored transaction carries its
\* wallet's m, no step changes the stored value, and the step that appends a
\* signature sets isComplete by comparing with the stored value.
C14_RequiredSignaturesFixed ==
  [][/\ \A i \in 1..Len(transactions') :
          transactions'[i].required_signatures
            = wallets'[transactions'[i].wallet_id].m
     /\ \A i \in 1..Len(transactions) :
          /\ transactions'[i].required_signatures
               = transactions[i].required_signatures
          /\ transactions'[i].signatures # transactions[i].signatures
               => transactions'[i].is_complete
                    = (Len(transactions'[i].signatures)
                         >= transactions[i].required_signatures)]_vars

\* a transaction of a 1-of-2 wallet has been signed: it requires 1 signature,
\* the wallet's m, and is Complete with one
C14_Witness ==
  \E i \in 1..Len(transactions) :
    /\ wallets[transactions[i].wallet_id].m = 1
    /\ wallets[transactions[i].wallet_id].n = 2
    /\ transactions[i].required_signatures = 1
    /\ Len(transactions[i].signatures) = 1
    /\ transactions[i].is_complete

\* C15: create of a transaction with amountSatoshis <= 0 fails and no record
\* is persisted: no insert of such a row goes on to the reload, and every
\* stored transaction has amountSatoshis > 0.
C15_StoredAmountsPositive ==
  /\ \A i \in 1..Len(transactions) : transactions[i].amount_satoshis > 0
  /\ \A c \in Clients :
       pc[c] = "ct_reload" => pending[c].row.amount_satoshis > 0

\* a create with an amount that is not positive has failed and the table is
\* empty
C15_Witness ==
  \E c \in Clients :
    /\ toast[c] = <<"Error", "Failed to create transaction">>
    /\ pc[c] = "idle"
    /\ transactions = <<>>

\* ------------------------------------------------- claims: cryptoService
\* C16 as stated: for every password and every plaintext (the empty string
\* included), decrypt applied to the ciphertext, salt and iv returned by
\* encrypt(plaintext, password), with the same password, returns exactly
\* plaintext.
C16_RoundTripEveryPlaintext ==
  (decResult # Null /\ decResult.password = encInput.password)
    => decResult.result = [ok |-> TRUE, text |-> encInput.data]

\* C16 as amended: with the same password, decrypt returns exactly the
\* plaintext when the plaintext is not empty, and ends in the error outcome
\* when it is empty.
C16_RoundTripNonEmpty ==
  (decResult # Null /\ decResult.password = encInput.password)
    => decResult.result = IF encInput.data = ""
                          THEN DecryptError
                          ELSE [ok |-> TRUE, text |-> encInput.data]

\* a text that is not empty was encrypted and decrypted under one password
C16_Witness ==
  /\ decResult # Null
  /\ decResult.password = encInput.password
  /\ encInput.data = "priv1"
  /\ decResult.result.ok

\* C17: decrypt called with a password different from the one used to
\* encrypt always ends in the error outcome; it never returns a string.
C17_WrongPasswordFails ==
  (decResult # Null /\ decResult.password # encInput.password)
    => decResult.result = DecryptError

\* ---------------------------------------------- claims: private key backup
\* rows of table wallet_keys of wallet w
StoredKeys(w) == {r \in wallet_keys : r.wallet_id = w}

\* a createBackup of wallet w with the password has completed: the wallet
\* has its KeyBackup record, every key has a ciphertext made with the
\* password, and no createBackup is under way
BackedUp(w, password) ==
  /\ getKeyBackup(w) # Null
  /\ StoredKeys(w) # {}
  /\ \A r \in StoredKeys(w) :
       /\ r.encrypted_private_key # Null
       /\ r.encrypted_private_key.key[2] = password
  /\ \A c \in Clients : pc[c] = "idle"

\* C18: after createBackup(wallet, password, secrets) completes successfully,
\* decryptAll(wallet, password) with the same password succeeds and returns
\* for every key exactly the secret that createBackup encrypted for it.
C18_BackupThenDecryptReturnsSecrets ==
  [][\A c \in Clients :
       \A garbled \in [1..Len(walletKeys[c]) -> WrongKeyOutcomes] :
         (/\ BackedUp(selectedWallet[c].id, "password123")
          /\ DecryptBackup(c, "password123", garbled))
           => /\ toast'[c][1] = "Backup Decrypted"
              /\ decryptedKeys'[c] =
                   {<<KeyId(r), r.encrypted_private_key.data>> :
                      r \in StoredKeys(selectedWallet[c].id)}]_vars

\* C19: decryptAll is all-or-nothing: the step that reports a failed
\* decryption leaves decryptedKeys as it was, and a step that changes
\* decryptedKeys reports success and holds a secret for every key of
\* walletKeys that has a ciphertext.
C19_DecryptAllOrNothing ==
  [][\A c \in Clients :
       /\ (/\ toast'[c] # toast[c]
           /\ toast'[c][2] = "Failed to decrypt backup. Please check your password.")
            => decryptedKeys'[c] = decryptedKeys[c]
       /\ decryptedKeys'[c] # decryptedKeys[c]
            => /\ toast'[c][1] = "Backup Decrypted"
               /\ \A i \in 1..Len(walletKeys[c]) :
                    walletKeys[c][i].encrypted_private_key # Null
                      => \E d \in decryptedKeys'[c] :
                           d[1] = KeyId(walletKeys[c][i])]_vars

\* the ciphertext was made from the password with this salt and iv
EncryptedUnder(encryptedData, password, backup) ==
  /\ encryptedData # Null
  /\ encryptedData.key = deriveKey(password, backup.salt)
  /\ encryptedData.iv = backup.iv

\* a session has had decryptAll fail with the password under which its
\* first key decrypts and its second key does not, and holds no secret
C19_Witness ==
  \E c \in Clients :
    /\ toast[c][2] = "Failed to decrypt backup. Please check your password."
    /\ decryptPassword[c] = "password123"
    /\ keyBackup[c] # Null
    /\ Len(walletKeys[c]) = 2
    /\ EncryptedUnder(walletKeys[c][1].encrypted_private_key, "password123",
                      keyBackup[c])
    /\ walletKeys[c][2].encrypted_private_key # Null
    /\ ~EncryptedUnder(walletKeys[c][2].encrypted_private_key, "password123",
                       keyBackup[c])
    /\ decryptedKeys[c] = {}

Mismatching(p) ==
  /\ p.backupData.fields = BundleFields
  /\ p.backupData.walletId # p.wallet_id

\* C21: an import of a document whose walletId is not the target wallet's id
\* ends in the warning, with no KeyBackup created and no ciphertext written.
C21_MismatchWarnsWritesNothing ==
  [][\A c \in Clients :
       /\ (pc[c] = "ib_read" /\ pc'[c] # "ib_read" /\ Mismatching(pending[c]))
            => /\ pc'[c] = "idle"
               /\ toast'[c] = <<"Warning",
                    "This backup belongs to a different wallet. Import anyway?">>
               /\ key_backups' = key_backups
               /\ wallet_keys' = wallet_keys
       /\ pc'[c] = "ib_write" => ~Mismatching(pending'[c])]_vars

\* a session has been warned about a document of another wallet
C21_Witness ==
  \E c \in Clients : toast[c][1] = "Warning" /\ pc[c] = "idle"

\* the entries of a document for this public key
EntriesFor(backupData, publicKey) ==
  {i \in 1..Len(backupData.encryptedKeys) :
     backupData.encryptedKeys[i].publicKey = publicKey}

\* C22: an import writes an entry's ciphertext only onto the wallet key with
\* the entry's publicKey, an entry without such a key does not fail the
\* import, and the keys without an entry keep their ciphertext.
C22_ImportMatchesByPublicKey ==
  [][\A c \in Clients :
       (pc[c] \in {"ib_read", "ib_write"} /\ pending'[c] # pending[c])
         => LET backupData == pending[c].backupData IN
            /\ \A r \in wallet_keys' \ wallet_keys :
                 \E i \in EntriesFor(backupData, r.public_key) :
                   r.encrypted_private_key =
                     backupData.encryptedKeys[i].encryptedPrivateKey
            /\ \A r \in wallet_keys :
                 EntriesFor(backupData, r.public_key) = {} => r \in wallet_keys'
            /\ (/\ backupData.fields = BundleFields
                /\ backupData.walletId = pending[c].wallet_id)
                 => \/ pc'[c] = "ib_write"
                    \/ pc'[c] = "idle" /\ toast'[c][1] = "Backup Imported"]_vars

\* a session has imported the document of wallet 1: the key 02aa holds the
\* ciphertext of its entry, the entry 02dd was passed over, and the key 03bb,
\* which has no entry, holds the ciphertext a createBackup gave it
C22_Witness ==
  /\ \E c \in Clients : toast[c][1] = "Backup Imported"
  /\ \E r \in wallet_keys :
       /\ r.public_key = "02aa"
       /\ r.encrypted_private_key = Bundle(BundleFields, 1).encryptedKeys[1].encryptedPrivateKey
  /\ \E r \in wallet_keys :
       /\ r.public_key = "03bb"
       /\ r.encrypted_private_key # Null
  /\ \A r \in wallet_keys : r.public_key # "02dd"

\* C23: an import of a document that lacks version, walletId, encryption or
\* encryptedKeys fails, with no KeyBackup created and no key record changed.
C23_MissingFieldFailsWritesNothing ==
  [][\A c \in Clients :
       /\ (/\ pc[c] = "ib_read" /\ pc'[c] # "ib_read"
           /\ pending[c].backupData.fields # BundleFields)
            => /\ pc'[c] = "idle"
               /\ toast'[c] = <<"Import Failed",
                    "Failed to import backup file. Please check the file format.">>
               /\ key_backups' = key_backups
               /\ wallet_keys' = wallet_keys
       /\ pc'[c] = "ib_write"
            => pending'[c].backupData.fields = BundleFields]_vars

\* a session's import of a document that lacks a field has failed

C23_Witness ==
  \E c \in Clients : toast[c][1] = "Import Failed" /\ pc[c] = "idle"

\* ------------------------------------------- claims: address builder

\* what createMultisigAddress hands to its caller: the address and script,
\* or null
Returned(multisigResult) ==
  IF multisigResult.ok
  THEN <<multisigResult.address, multisigResult.scriptHex>>
  ELSE Null

\* the keys of the list that are no curve point
InvalidKeys(publicKeys) ==
  {i \in 1..Len(publicKeys) : ~isPoint(HexDecode(publicKeys[i]))}

\* C24: when a key of the list is no valid curve point, createMultisigAddress
\* returns no address and no script, and the failure it returns names the
\* offending key.
C24_InvalidKeyFailureNamesKey ==
  (buildResult # Null /\ InvalidKeys(buildInput.publicKeys) # {})
    => /\ ~buildResult.ok
       /\ buildResult.address = Null /\ buildResult.scriptHex = Null
       /\ \E i \in InvalidKeys(buildInput.publicKeys) :
            \E k \in 1..Len(Returned(buildResult)) :
              Returned(buildResult)[k] = buildInput.publicKeys[i]

\* ------------------------------------------ claims: backup parameters

\* C25: every ciphertext createBackup stores was produced with the key
\* derived from the password and the salt of the wallet's KeyBackup record,
\* and with that record's iv.
C25_CiphertextsUnderBackupSaltIv ==
  [][\A c \in Clients :
       (pc[c] = "cb_write" /\ pending'[c] # pending[c])
         => \A r \in wallet_keys' \ wallet_keys :
              EncryptedUnder(r.encrypted_private_key, pending[c].password,
                             getKeyBackup(pending[c].wallet_id))]_vars

\* -------------------------------------------- claims: order of the keys

\* the script over the wallet's stored keys in key_index order
ScriptInKeyIndexOrder(w) ==
  LET keys == getWalletKeys(wallets[w].id) IN
  <<"p2ms", wallets[w].m,
    [i \in 1..Len(keys) |-> HexDecode(keys[i].public_key)]>>

\* C26: the stored scriptHex of a finalized wallet lists the wallet's public
\* keys in ascending keyIndex order.
C26_ScriptInKeyIndexOrder ==
  \A w \in 1..Len(wallets) :
    wallets[w].script_hex # Null
      => wallets[w].script_hex = ScriptInKeyIndexOrder(w)

\* ------------------------------------------ claims: a failing backup

\* C27: when the store write for a key fails in createBackup, the operation
\* reports failure and undoes nothing: the KeyBackup record and the
\* ciphertexts written before stay, the remaining keys get none.
C27_FailedBackupLeftPartial ==
  [][\A c \in Clients :
       (/\ pc[c] = "cb_write" /\ pc'[c] = "idle"
        /\ toast'[c][1] # "Backup Created")
         => /\ toast'[c] = <<"Error", "Failed to create backup">>
            /\ getKeyBackup(pending[c].wallet_id) # Null
            /\ key_backups' = key_backups
            /\ wallet_keys' = wallet_keys]_vars

\* a createBackup has failed at its second key and no other was made: the
\* wallet has its KeyBackup record, the first key its ciphertext, the second
\* key none
C27_Witness ==
  /\ \E c \in Clients : toast[c] = <<"Error", "Failed to create backup">>
  /\ \A c \in Clients : toast[c][1] # "Backup Created" /\ pc[c] = "idle"
  /\ getKeyBackup(1) # Null
  /\ \E r \in wallet_keys : r.key_index = 0 /\ r.encrypted_private_key # Null
  /\ \E r \in wallet_keys : r.key_index = 1 /\ r.encrypted_private_key = Null

\* ----------------------------------- claims: parameters after an import

\* C28: after a successful import into a wallet, the salt and iv of the
\* wallet's KeyBackup record are the encryption.salt and encryption.iv of
\* the imported document.
C28_ImportKeepsParametersPaired ==
  [][\A c \in Clients :
       (/\ pc[c] \in {"ib_read", "ib_write"} /\ pc'[c] = "idle"
        /\ pending[c].backupData.fields = BundleFields
        /\ pending[c].backupData.walletId = pending[c].wallet_id)
         => LET backup == SelectRows(key_backups', pending[c].wallet_id)[1]
                encryption == pending[c].backupData.encryption IN
            /\ toast'[c][1] = "Backup Imported"
            /\ backup.salt = encryption.salt
            /\ backup.iv = encryption.iv]_vars

\* --------------------------------------- claims: the selected wallet

\* C29: whenever a session starts a finalize or an addKey, the keys it
\* holds are keys of its selected wallet: the address is not built from
\* another wallet's keys and the keyIndex is not another wallet's key count.
C29_KeysOfSelectedWallet ==
  [][\A c \in Clients :
       (pc[c] = "idle" /\ pc'[c] \in {"fw_update", "ak_insert"})
         => \A i \in 1..Len(walletKeys[c]) :
              walletKeys[c][i].wallet_id = selectedWallet[c].id]_vars

\* --------------------------------- claims: transactions need an address

\* C30: every stored transaction belongs to a wallet whose address is set,
\* and no session is creating a transaction for a wallet without address.
C30_TransactionsOfFinalizedWallets ==
  /\ \A t \in 1..Len(transactions) :
       \E w \in 1..Len(wallets) :
         wallets[w].id = transactions[t].wallet_id /\ wallets[w].address # Null
  /\ \A c \in Clients :
       pc[c] = "ct_insert"
         => \E w \in 1..Len(wallets) :
              /\ wallets[w].id = pending[c].row.wallet_id
              /\ wallets[w].address # Null

\* the wallet began without address, was finalized, and holds a transaction
C30_Witness ==
  /\ Len(transactions) > 0
  /\ addressWrites[transactions[1].wallet_id] > 0

====
